---- MODULE Spec2Model ----
(***************************************************************************)
(* The two serverless entry points of flashfinance that proxy requests to  *)
(* the Gemini API:                                                         *)
(*   "getNews"  - src/netlify/get-news.js, raw-payload pass-through with   *)
(*                a bounded retry loop and exponential backoff;            *)
(*   "part000"  - src/unnamed/part_000, typed intent (fetch / summarize),  *)
(*                one upstream call, no retry.                             *)
(* An invocation is one call of exports.handler.  Each action is the run   *)
(* of a handler from one suspension point (await) to the next: JavaScript  *)
(* runs that stretch without interleaving.                                 *)
(* Texts (error messages, URLs) are sequences of string tokens, so that a  *)
(* template literal is a concatenation and "text mentions the credential"  *)
(* is a membership test.                                                   *)
(***************************************************************************)
EXTENDS Integers, Sequences, FiniteSets, TLC

VARIABLES
    API_KEY,    \* process.env.GEMINI_API_KEY as read at module load
    inv         \* inv[i]: the closure state of invocation i

vars == <<API_KEY, inv>>

(***************************** bounds **************************************)
\* number of invocation slots of one process
NumInv == 2

Invocations == 1..NumInv

(************************* program constants *******************************)
GEMINI_MODEL == "gemini-2.5-flash-preview-09-2025"

maxRetries == 3

\* the value of an unset environment variable / an absent property
Undefined == "<undefined>"
\* event.body as the host passes it when the request has no body
Null == "<null>"

\* values process.env.GEMINI_API_KEY can have at module load
ApiKeys == {Undefined, "", "SECRET"}

Handlers == {"getNews", "part000"}

Methods == {"POST", "GET", "PUT"}

(*************************** JSON texts ************************************)
\* raw request bodies a caller can send
RawBodies ==
    { Undefined, Null, "", "not json", "null", "5", "{}",
      "{contents:null}", "{contents:''}", "{contents:[]}", "{contents:[x]}",
      "{type:'fetch'}", "{type:'other'}",
      "{type:'summarize'}", "{type:'summarize',textToSummarize:''}",
      "{type:'summarize',textToSummarize:'t'}" }

\* response bodies the upstream can send
UpstreamTexts ==
    { "{candidates:[c]}", "{ candidates : [c] }",
      "{candidates:[c],groundingMetadata:{g}}", "<html>502</html>" }

JNull == [t |-> "null", o |-> [none |-> TRUE]]
JNumber == [t |-> "number", o |-> [none |-> TRUE]]
JObject(fields) == [t |-> "object", o |-> fields]

Threw(msg) == [threw |-> TRUE, value |-> JNull, message |-> msg]
Parsed(v) == [threw |-> FALSE, value |-> v, message |-> <<>>]

\* JSON.parse(text): its argument is first converted to a string, so
\* undefined is the text "undefined" (a SyntaxError) and null is "null".
JSONparse(text) ==
    CASE text = Null -> Parsed(JNull)
      [] text = "null" -> Parsed(JNull)
      [] text = "5" -> Parsed(JNumber)
      [] text = "{}" -> Parsed(JObject([none |-> TRUE]))
      [] text = "{contents:null}" -> Parsed(JObject([contents |-> "null"]))
      [] text = "{contents:''}" -> Parsed(JObject([contents |-> ""]))
      [] text = "{contents:[]}" -> Parsed(JObject([contents |-> "[]"]))
      [] text = "{contents:[x]}" -> Parsed(JObject([contents |-> "[x]"]))
      [] text = "{type:'fetch'}" -> Parsed(JObject([type |-> "fetch"]))
      [] text = "{type:'other'}" -> Parsed(JObject([type |-> "other"]))
      [] text = "{type:'summarize'}" -> Parsed(JObject([type |-> "summarize"]))
      [] text = "{type:'summarize',textToSummarize:''}" ->
            Parsed(JObject([type |-> "summarize", textToSummarize |-> ""]))
      [] text = "{type:'summarize',textToSummarize:'t'}" ->
            Parsed(JObject([type |-> "summarize", textToSummarize |-> "t"]))
      [] text = "{candidates:[c]}" -> Parsed(JObject([candidates |-> "[c]"]))
      [] text = "{ candidates : [c] }" -> Parsed(JObject([candidates |-> "[c]"]))
      [] text = "{candidates:[c],groundingMetadata:{g}}" ->
            Parsed(JObject([candidates |-> "[c]", groundingMetadata |-> "{g}"]))
      [] OTHER -> Threw(<<"Unexpected token in JSON">>)

\* the texts JSON.stringify produces
CanonicalTexts ==
    { "null", "5", "{}", "{contents:null}", "{contents:''}", "{contents:[]}",
      "{contents:[x]}", "{type:'fetch'}", "{type:'other'}", "{type:'summarize'}",
      "{type:'summarize',textToSummarize:''}",
      "{type:'summarize',textToSummarize:'t'}",
      "{candidates:[c]}", "{candidates:[c],groundingMetadata:{g}}" }

\* JSON.stringify(v) of a value that came out of JSON.parse
JSONstringify(v) == CHOOSE t \in CanonicalTexts : JSONparse(t).value = v

\* property access v[k] on a non-null value
Get(v, k) == IF v.t = "object" /\ k \in DOMAIN v.o THEN v.o[k] ELSE Undefined

\* JavaScript truthiness of a property value: undefined, null and '' are
\* falsy, an array (even an empty one) is truthy
Truthy(x) == x \notin {Undefined, "null", ""}

(***************************** results *************************************)
NoBody == [none |-> TRUE]
NoHeaders == <<>>

Pending == [settled |-> "pending", statusCode |-> 0, headers |-> NoHeaders,
            body |-> NoBody, message |-> <<>>]

\* the handler's promise fulfils with {statusCode, headers?, body}
Returned(status, headers, body) ==
    [settled |-> "returned", statusCode |-> status, headers |-> headers,
     body |-> body, message |-> <<>>]

\* the handler's promise fulfils with undefined (the loop fell through)
ReturnedUndefined ==
    [settled |-> "undefined", statusCode |-> 0, headers |-> NoHeaders,
     body |-> NoBody, message |-> <<>>]

\* the handler's promise rejects: an exception left the entry point
Rejected(msg) ==
    [settled |-> "rejected", statusCode |-> 0, headers |-> NoHeaders,
     body |-> NoBody, message |-> msg]

\* the value a caller gets by parsing body: JSON.stringify(obj)
ErrorBody(text) == [error |-> text]
\* (variant: the text goes under `message` instead of `error`)
ErrorDetailsBody_noError(text, details) == [message |-> text, details |-> details]

ErrorDetailsBody(text, details) == [error |-> text, details |-> details]
\* (variant: only the candidates of the upstream answer are passed on)
JsonBody_candidatesOnly(v) ==
    IF v.t = "object" /\ "groundingMetadata" \in DOMAIN v.o
    THEN JObject([candidates |-> v.o.candidates])
    ELSE JSONparse(JSONstringify(v)).value

JsonBody(v) == JSONparse(JSONstringify(v)).value

(************************** invocation state *******************************)
NoEvent == [httpMethod |-> "none", body |-> Undefined]
NoResponse == [kind |-> "none", status |-> 0, text |-> "", message |-> <<>>]
NoRequest == [url |-> <<>>, payload |-> JNull]

IdleState ==
    [pc |-> "idle", handler |-> "none", event |-> NoEvent,
     apiUrl |-> <<>>, payload |-> JNull, attempt |-> 0,
     response |-> NoResponse, error |-> <<>>,
     sent |-> NoRequest, calls |-> 0, inflight |-> 0, timers |-> 0,
     log |-> <<>>, waits |-> <<>>, result |-> Pending]

(************************ pieces of both handlers **************************)
\* `!API_KEY`: the credential is unset or empty
\* (variant: `API_KEY === undefined`, which lets an empty key through)
KeyMissing_undefinedOnly(key) == key = Undefined

KeyMissing(key) == key \in {Undefined, ""}

\* the endpoint URL, a template literal over the model name and the key
apiUrlOf(key) ==
    <<"https://generativelanguage.googleapis.com/v1beta/models/",
      GEMINI_MODEL, ":generateContent?key=", key>>

\* response.ok
Ok(response) == response.status \in 200..299

\* fetch(url, {method, headers, body}): an outbound call is now in flight
Fetch(s, url, body) ==
    [s EXCEPT !.pc = "await_fetch", !.calls = @ + 1, !.inflight = @ + 1,
              !.sent = [url |-> url, payload |-> body]]

\* return r
Return(s, r) == [s EXCEPT !.pc = "done", !.result = r]

\* an exception nothing catches: the async function's promise rejects
Raise(s, msg) == [s EXCEPT !.pc = "done", !.result = Rejected(msg)]

(****************************** get-news.js ********************************)
\* Math.pow(2, attempt) * 1000
\* (variant: a fixed one-second wait)
waitTime_fixed(attempt) == 1000

\* (variant: the exponent is off by one, 2 s then 4 s)
waitTime_double(attempt) == (2 ^ (attempt + 1)) * 1000

waitTime(attempt) == (2 ^ attempt) * 1000

\* attempt < maxRetries - 1
\* (variant: `attempt < maxRetries`, off by one)
RetriesRemain_offByOne(attempt) == attempt < maxRetries

RetriesRemain(attempt) == attempt < maxRetries - 1

\* `Gemini API returned status ${response.status}`
StatusMessage(status) == <<"Gemini API returned status ", ToString(status)>>

\* the head of `for (let attempt = 0; attempt < maxRetries; attempt++)`:
\* the next fetch, or the end of the function when the loop is over
GetNewsLoop(s) ==
    IF s.attempt < maxRetries
    THEN Fetch(s, s.apiUrl, JsonBody(s.payload))
    ELSE Return(s, ReturnedUndefined)

\* lines 16-57: the validation gates, then the first attempt
\* (variant: the credential gate comes before the method gate)
GetNewsEntry_keyFirst(s, key) ==
    IF KeyMissing(key)
    THEN Return(s, Returned(500, NoHeaders,
                ErrorBody(<<"Server configuration error: API key missing.">>)))
    ELSE IF s.event.httpMethod # "POST"
    THEN Return(s, Returned(405, NoHeaders, ErrorBody(<<"Method Not Allowed">>)))
    ELSE LET p == JSONparse(s.event.body) IN
         IF p.threw
         THEN Return(s, Returned(400, NoHeaders,
                        ErrorBody(<<"Invalid JSON body provided.">>)))
         ELSE IF p.value.t = "null" \/ ~Truthy(Get(p.value, "contents"))
         THEN Return(s, Returned(400, NoHeaders,
                        ErrorBody(<<"Missing required 'contents' in payload.">>)))
         ELSE GetNewsLoop([s EXCEPT !.payload = p.value,
                                    !.apiUrl = apiUrlOf(key),
                                    !.attempt = 0])

GetNewsEntry(s, key) ==
    IF s.event.httpMethod # "POST"
    THEN Return(s, Returned(405, NoHeaders, ErrorBody(<<"Method Not Allowed">>)))
    ELSE IF KeyMissing(key)
    THEN Return(s, Returned(500, NoHeaders,
                ErrorBody(<<"Server configuration error: API key missing.">>)))
    ELSE LET p == JSONparse(s.event.body) IN
         IF p.threw
         THEN Return(s, Returned(400, NoHeaders,
                        ErrorBody(<<"Invalid JSON body provided.">>)))
         ELSE IF p.value.t = "null" \/ ~Truthy(Get(p.value, "contents"))
         THEN Return(s, Returned(400, NoHeaders,
                        ErrorBody(<<"Missing required 'contents' in payload.">>)))
         ELSE GetNewsLoop([s EXCEPT !.payload = p.value,
                                    !.apiUrl = apiUrlOf(key),
                                    !.attempt = 0])

\* lines 82-98: the catch block of one attempt
\* (variant: the timer promise is not awaited, the loop goes straight on)
GetNewsCatch_noAwait(s, error) ==
    IF RetriesRemain(s.attempt)
    THEN GetNewsLoop([s EXCEPT !.error = error,
                               !.waits = Append(@, waitTime(s.attempt)),
                               !.timers = @ + 1,
                               !.attempt = @ + 1])
    ELSE Return(s, Returned(502, NoHeaders,
            ErrorDetailsBody(
                <<"Failed to communicate with the Gemini API after multiple retries.">>,
                error)))

GetNewsCatch(s, error) ==
    IF RetriesRemain(s.attempt)
    THEN [s EXCEPT !.error = error,
                   !.waits = Append(@, waitTime(s.attempt)),
                   !.timers = @ + 1,
                   !.pc = "await_timer"]
    ELSE Return(s, Returned(502, NoHeaders,
            ErrorDetailsBody(
                <<"Failed to communicate with the Gemini API after multiple retries.">>,
                error)))

\* line 59: `await fetch(...)` settles with outcome o
GetNewsFetchSettled(s, o) ==
    LET s1 == [s EXCEPT !.inflight = @ - 1, !.log = Append(@, o)] IN
    IF o.kind = "reject"
    THEN GetNewsCatch(s1, o.message)
    ELSE [s1 EXCEPT !.response = o, !.pc = "await_json"]

\* lines 65-80: `await response.json()` settles, on either branch
\* (variant: a 4xx answer is returned to the caller instead of retried)
GetNewsJsonSettled_forward4xx(s) ==
    LET p == JSONparse(s.response.text) IN
    IF ~Ok(s.response)
    THEN IF p.threw THEN GetNewsCatch(s, p.message)
         ELSE IF s.response.status \in 400..499
         THEN Return(s, Returned(s.response.status, NoHeaders,
                        ErrorDetailsBody(StatusMessage(s.response.status), <<>>)))
         ELSE GetNewsCatch(s, StatusMessage(s.response.status))
    ELSE IF p.threw THEN GetNewsCatch(s, p.message)
         ELSE Return(s, Returned(200, <<"Content-Type", "application/json">>,
                                 JsonBody(p.value)))

\* (variant: the success body is read outside the try, its failure escapes)
GetNewsJsonSettled_parseOutsideTry(s) ==
    LET p == JSONparse(s.response.text) IN
    IF ~Ok(s.response)
    THEN IF p.threw THEN GetNewsCatch(s, p.message)
         ELSE GetNewsCatch(s, StatusMessage(s.response.status))
    ELSE IF p.threw THEN Raise(s, p.message)
         ELSE Return(s, Returned(200, <<"Content-Type", "application/json">>,
                                 JsonBody(p.value)))

\* (variant: the status error is thrown before the error body is read)
GetNewsJsonSettled_statusFirst(s) ==
    LET p == JSONparse(s.response.text) IN
    IF ~Ok(s.response)
    THEN GetNewsCatch(s, StatusMessage(s.response.status))
    ELSE IF p.threw THEN GetNewsCatch(s, p.message)
         ELSE Return(s, Returned(200, <<"Content-Type", "application/json">>,
                                 JsonBody(p.value)))

GetNewsJsonSettled(s) ==
    LET p == JSONparse(s.response.text) IN
    IF ~Ok(s.response)
    THEN IF p.threw THEN GetNewsCatch(s, p.message)
         ELSE GetNewsCatch(s, StatusMessage(s.response.status))
    ELSE IF p.threw THEN GetNewsCatch(s, p.message)
         ELSE Return(s, Returned(200, <<"Content-Type", "application/json">>,
                                 JsonBody(p.value)))

\* line 87: the backoff timer fires, then `attempt++` and the loop head
GetNewsTimerFired(s) ==
    GetNewsLoop([s EXCEPT !.timers = @ - 1, !.attempt = @ + 1])

(******************************** part_000 *********************************)
FetchQuery == "What are the top 5 current finance and business news stories?"
FetchPrompt ==
    "Act as a concise news aggregator. Provide the title and full body of the top 5 finance stories. Format the output as clean markdown, separating each story clearly using titles and paragraphs."
SummarizePrompt ==
    "You are a highly efficient editor. Condense the provided financial news content into a single, cohesive, jargon-free paragraph. The summary must be 60 words or less. Do not use a title, introduction, or citation placeholders."

\* contents: [{ parts: [{ text: userQuery }] }] as it goes on the wire:
\* JSON.stringify leaves out a property whose value is undefined
ContentsOf(userQuery) ==
    IF userQuery = Undefined THEN <<"[{parts:[{", "}]}]">>
    ELSE <<"[{parts:[{text:", userQuery, "}]}]">>

\* lines 45-52: the payload, with tools only when the list is not empty
\* (variant: `payload.tools = tools` without the length test)
BuildPayload_alwaysTools(userQuery, systemPrompt, tools) ==
    JObject([contents |-> ContentsOf(userQuery),
             systemInstruction |-> systemPrompt, tools |-> tools])

BuildPayload(userQuery, systemPrompt, tools) ==
    IF Len(tools) > 0
    THEN JObject([contents |-> ContentsOf(userQuery),
                  systemInstruction |-> systemPrompt, tools |-> tools])
    ELSE JObject([contents |-> ContentsOf(userQuery),
                  systemInstruction |-> systemPrompt])

\* lines 12-59: the credential gate, the parse, the dispatch on body.type,
\* then the one upstream call
Part000Entry(s, key) ==
    IF KeyMissing(key)
    THEN Return(s, Returned(500, NoHeaders,
                ErrorBody(<<"API Key is not configured on the server.">>)))
    ELSE LET text == IF s.event.body \in {Undefined, Null, ""}
                     THEN "{}" ELSE s.event.body
             p == JSONparse(text) IN
         IF p.threw THEN Raise(s, p.message)
         ELSE IF p.value.t = "null"
         THEN Raise(s, <<"Cannot read properties of null (reading 'type')">>)
         ELSE LET apiType == Get(p.value, "type")
                  s1 == [s EXCEPT !.payload = p.value, !.apiUrl = apiUrlOf(key)] IN
              IF apiType = "fetch"
              THEN Fetch(s1, s1.apiUrl,
                         BuildPayload(FetchQuery, FetchPrompt, <<"google_search">>))
              ELSE IF apiType = "summarize"
              THEN Fetch(s1, s1.apiUrl,
                         BuildPayload(Get(p.value, "textToSummarize"),
                                      SummarizePrompt, <<>>))
              ELSE Return(s, Returned(400, NoHeaders,
                            ErrorBody(<<"Invalid API type specified.">>)))

\* lines 78-84: the catch block
Part000Catch(s, error) ==
    Return([s EXCEPT !.error = error],
           Returned(500, NoHeaders,
                    ErrorBody(<<"Internal server error during API proxy.">>)))

\* line 55: `await fetch(...)` settles with outcome o
Part000FetchSettled(s, o) ==
    LET s1 == [s EXCEPT !.inflight = @ - 1, !.log = Append(@, o)] IN
    IF o.kind = "reject"
    THEN Part000Catch(s1, o.message)
    ELSE [s1 EXCEPT !.response = o, !.pc = "await_json"]

\* lines 61-76: `await response.json()` settles, on either branch
Part000JsonSettled(s) ==
    LET p == JSONparse(s.response.text) IN
    IF p.threw THEN Part000Catch(s, p.message)
    ELSE IF ~Ok(s.response)
    THEN Return(s, Returned(s.response.status, NoHeaders,
            ErrorDetailsBody(
                <<"External API call failed: ", ToString(s.response.status)>>,
                JsonBody(p.value))))
    ELSE Return(s, Returned(200, NoHeaders, JsonBody(p.value)))

(***************************** environment *********************************)
\* statuses the upstream answers with
Statuses == {200, 404, 503}

\* messages of the error a fetch rejects with; the second names the request
\* URL, as node-fetch's FetchError does ("request to <url> failed, reason: ...")
TransportMessages(url) ==
    { <<"fetch failed">>,
      <<"request to ">> \o url \o <<" failed, reason: ECONNRESET">> }

Reject(msg) == [kind |-> "reject", status |-> 0, text |-> "", message |-> msg]
Response(status, text) ==
    [kind |-> "response", status |-> status, text |-> text, message |-> <<>>]

\* what one outbound call to url can settle with
Outcomes(url) ==
    {Reject(m) : m \in TransportMessages(url)}
    \cup {Response(st, tx) : st \in Statuses, tx \in UpstreamTexts}

Events == [httpMethod : Methods, body : RawBodies]

\* the smaller environment of the shared-process specification
ConcOutcomes(url) ==
    { Reject(<<"fetch failed">>), Response(200, "{candidates:[c]}") }

ConcEvents ==
    [httpMethod : {"POST", "GET"}, body : {"{contents:[x]}", "{type:'fetch'}"}]

(******************************* actions ***********************************)
\* the state of invocation i is its own: `let attempt`, `payload` and the
\* other locals live in the closure of one call of the handler
\* (variant: `attempt` declared at module level, shared by the calls)
Commit_sharedAttempt(all, i, s) ==
    [j \in DOMAIN all |->
        IF j = i THEN s
        ELSE IF all[j].pc \in {"await_fetch", "await_json", "await_timer"}
        THEN [all[j] EXCEPT !.attempt = s.attempt]
        ELSE all[j]]

Commit(all, i, s) == [all EXCEPT ![i] = s]

\* the host calls exports.handler(event) of handler h
Invoke(i, evs) ==
    /\ inv[i].pc = "idle"
    /\ \E h \in Handlers, ev \in evs :
          LET s == [IdleState EXCEPT !.handler = h, !.event = ev] IN
          inv' = Commit(inv, i, IF h = "getNews" THEN GetNewsEntry(s, API_KEY)
                                ELSE Part000Entry(s, API_KEY))
    /\ UNCHANGED API_KEY

\* the outbound call of invocation i settles
FetchSettles(i, outs) ==
    /\ inv[i].pc = "await_fetch"
    /\ \E o \in outs :
          inv' = Commit(inv, i, IF inv[i].handler = "getNews"
                                THEN GetNewsFetchSettled(inv[i], o)
                                ELSE Part000FetchSettled(inv[i], o))
    /\ UNCHANGED API_KEY

\* the body of the response invocation i holds has been read
JsonSettles(i) ==
    /\ inv[i].pc = "await_json"
    /\ inv' = Commit(inv, i, IF inv[i].handler = "getNews"
                             THEN GetNewsJsonSettled(inv[i])
                             ELSE Part000JsonSettled(inv[i]))
    /\ UNCHANGED API_KEY

\* the backoff timer of invocation i fires
TimerFires(i) ==
    /\ inv[i].pc = "await_timer"
    /\ inv[i].timers > 0
    /\ inv' = Commit(inv, i, GetNewsTimerFired(inv[i]))
    /\ UNCHANGED API_KEY

\* the host has taken the result; the closure is garbage
Discard(i) ==
    /\ inv[i].pc = "done"
    /\ inv' = [inv EXCEPT ![i] = IdleState]
    /\ UNCHANGED API_KEY

Init ==
    /\ API_KEY \in ApiKeys
    /\ inv = [i \in Invocations |-> IdleState]

\* one invocation at a time in a process (the function host's default)
NoneActive == \A j \in Invocations : inv[j].pc = "idle"

Next ==
    \E i \in Invocations :
        \/ NoneActive /\ Invoke(i, Events)
        \/ FetchSettles(i, Outcomes(inv[i].sent.url))
        \/ JsonSettles(i)
        \/ TimerFires(i)
        \/ Discard(i)

Spec == Init /\ [][Next]_vars

\* the event loop runs every continuation that is ready: a call that has
\* settled, a body that has been read, a timer that has fired
Fairness ==
    \A i \in Invocations :
        /\ WF_vars(FetchSettles(i, Outcomes(inv[i].sent.url)))
        /\ WF_vars(JsonSettles(i))
        /\ WF_vars(TimerFires(i))

SpecFair == Spec /\ Fairness

\* concurrent invocations in one shared process
NextConc ==
    \E i \in Invocations :
        \/ Invoke(i, ConcEvents)
        \/ FetchSettles(i, ConcOutcomes(inv[i].sent.url))
        \/ JsonSettles(i)
        \/ TimerFires(i)
        \/ Discard(i)

SpecConc == Init /\ [][NextConc]_vars

(***************************************************************************)
(*                         the claims                                      *)
(***************************************************************************)
IsDone(i) == inv[i].pc = "done"
ReturnedStatus(i, st) ==
    inv[i].result.settled = "returned" /\ inv[i].result.statusCode = st

\* an outcome that is a non-success upstream response
IsNonSuccess(o) == o.kind = "response" /\ o.status \notin 200..299
\* an outcome that is a transport-level failure
IsTransportFailure(o) == o.kind = "reject"
\* an outcome that is a success status with a body that is JSON
IsSuccess(o) ==
    o.kind = "response" /\ o.status \in 200..299 /\ ~JSONparse(o.text).threw

\* the message of the failure that outcome o is
FailureMessage(o) ==
    IF o.kind = "reject" THEN o.message
    ELSE IF JSONparse(o.text).threw THEN JSONparse(o.text).message
    ELSE <<"Gemini API returned status ", ToString(o.status)>>

AllFailed(log) ==
    \A k \in 1..Len(log) : IsNonSuccess(log[k]) \/ IsTransportFailure(log[k])

\* text mentions token tok
Mentions(text, tok) == \E k \in 1..Len(text) : text[k] = tok

\* C1: every invocation of either entry point, whatever the method, the body
\* and the upstream's behaviour, ends by returning {statusCode, body}; it
\* never ends with the handler's promise rejected (or fulfilled with nothing).
C1_AlwaysReturnsResult ==
    \A i \in Invocations :
        IsDone(i) =>
            /\ inv[i].result.settled = "returned"
            /\ inv[i].result.statusCode > 0
            /\ inv[i].result.body # NoBody

\* C2 (as stated): when every outbound attempt of an invocation failed (a
\* non-success status or a transport failure each), the result is 502 with
\* body {error, details}, details the message of the last failure, after
\* exactly maxRetries attempts, and the last upstream status is not returned.
C2_ExhaustionIs502 ==
    \A i \in Invocations :
        (IsDone(i) /\ Len(inv[i].log) >= 1 /\ AllFailed(inv[i].log)) =>
            /\ ReturnedStatus(i, 502)
            /\ DOMAIN inv[i].result.body = {"error", "details"}
            /\ inv[i].result.body.details
                  = FailureMessage(inv[i].log[Len(inv[i].log)])
            /\ inv[i].calls = maxRetries
            /\ Len(inv[i].log) = maxRetries

\* C2 (amended): the above holds of the retrying handler (get-news.js); the
\* single-shot handler (part_000) makes exactly one attempt and returns the
\* upstream's own status with {error, details} when the answer is a
\* non-success status with a JSON body, and 500 with {error} otherwise.
C2_ExhaustionPerHandler ==
    \A i \in Invocations :
        (IsDone(i) /\ Len(inv[i].log) >= 1 /\ AllFailed(inv[i].log)) =>
            IF inv[i].handler = "getNews"
            THEN /\ ReturnedStatus(i, 502)
                 /\ DOMAIN inv[i].result.body = {"error", "details"}
                 /\ inv[i].result.body.details
                       = FailureMessage(inv[i].log[Len(inv[i].log)])
                 /\ inv[i].calls = 3
                 /\ Len(inv[i].log) = 3
            ELSE /\ inv[i].calls = 1
                 /\ Len(inv[i].log) = 1
                 /\ LET o == inv[i].log[1] IN
                    IF IsNonSuccess(o) /\ ~JSONparse(o.text).threw
                    THEN /\ ReturnedStatus(i, o.status)
                         /\ DOMAIN inv[i].result.body = {"error", "details"}
                    ELSE /\ ReturnedStatus(i, 500)
                         /\ DOMAIN inv[i].result.body = {"error"}

\* the retrying handler has used up its attempts, the last failure being of
\* another kind and message than the first
C2_Witness ==
    \E i \in Invocations :
        /\ IsDone(i) /\ inv[i].handler = "getNews"
        /\ Len(inv[i].log) = 3 /\ AllFailed(inv[i].log)
        /\ IsTransportFailure(inv[i].log[1])
        /\ IsNonSuccess(inv[i].log[3]) /\ inv[i].log[3].status = 503
        /\ ~JSONparse(inv[i].log[3].text).threw
        /\ ReturnedStatus(i, 502)

\* C3: in the retrying handler, two failed attempts followed by a success
\* give 200 with the success body, exactly 3 outbound attempts, and waits of
\* 1000 ms then 2000 ms.
C3_FailFailSucceed ==
    \A i \in Invocations :
        (/\ IsDone(i) /\ inv[i].handler = "getNews"
         /\ Len(inv[i].log) = 3 /\ IsSuccess(inv[i].log[3])) =>
            /\ ReturnedStatus(i, 200)
            /\ inv[i].result.body = JSONparse(inv[i].log[3].text).value
            /\ inv[i].calls = 3
            /\ inv[i].waits = <<1000, 2000>>

C3_Witness ==
    \E i \in Invocations :
        /\ IsDone(i) /\ inv[i].handler = "getNews"
        /\ Len(inv[i].log) = 3 /\ IsSuccess(inv[i].log[3])
        /\ IsNonSuccess(inv[i].log[1]) /\ IsTransportFailure(inv[i].log[2])
        /\ ReturnedStatus(i, 200)

\* the outcomes of invocation i whose handling (catch or return) has run
Handled(i) ==
    IF inv[i].pc = "await_json" THEN Len(inv[i].log) - 1 ELSE Len(inv[i].log)

\* C4 (as stated): retry is uniform over failure kinds: a non-success answer
\* on the first attempt, of any status class, is followed by a backoff wait
\* and another outbound attempt; it neither ends the invocation at once nor
\* is forwarded to the caller.
C4_FirstFailureRetried ==
    \A i \in Invocations :
        (IsDone(i) /\ Len(inv[i].log) >= 1 /\ IsNonSuccess(inv[i].log[1])) =>
            /\ Len(inv[i].waits) >= 1
            /\ inv[i].calls >= 2
            /\ ~ReturnedStatus(i, inv[i].log[1].status)

\* C4 (amended): in the retrying handler (get-news.js) every failure of a
\* non-final attempt k, a non-success answer of any status class as much as a
\* transport failure, is followed by the k-th backoff wait and then by
\* attempt k+1, and no upstream status is returned to the caller; the
\* single-shot handler (part_000) never waits or retries: a non-success
\* answer to its only attempt ends the invocation, with the upstream status
\* as the result's status when the error body is JSON.
C4_UniformRetryPerHandler ==
    \A i \in Invocations :
        IF inv[i].handler = "getNews"
        THEN /\ \A k \in 1..Handled(i) :
                    (k < maxRetries /\ ~IsSuccess(inv[i].log[k])) =>
                        /\ Len(inv[i].waits) >= k
                        /\ \/ inv[i].calls >= k + 1
                           \/ inv[i].pc = "await_timer" /\ k = Len(inv[i].log)
             /\ IsDone(i) /\ Len(inv[i].log) >= 1 =>
                    inv[i].result.statusCode \in {200, 502}
        ELSE /\ inv[i].waits = <<>>
             /\ inv[i].calls <= 1
             /\ (IsDone(i) /\ Len(inv[i].log) = 1 /\ IsNonSuccess(inv[i].log[1])
                 /\ ~JSONparse(inv[i].log[1].text).threw) =>
                    ReturnedStatus(i, inv[i].log[1].status)

\* the retrying handler has a second attempt in flight after a 404 answer
C4_Witness ==
    \E i \in Invocations :
        /\ inv[i].handler = "getNews" /\ inv[i].pc = "await_fetch"
        /\ inv[i].calls = 2 /\ inv[i].waits = <<1000>>
        /\ IsNonSuccess(inv[i].log[1]) /\ inv[i].log[1].status = 404
        /\ ~JSONparse(inv[i].log[1].text).threw

\* C5: an invocation whose method is not POST, whatever its body and the
\* credential, makes no outbound call and ends with status 405 and a body
\* that has an error field.
C5_NonPostIs405 ==
    \A i \in Invocations :
        (inv[i].pc # "idle" /\ inv[i].event.httpMethod # "POST") =>
            /\ inv[i].calls = 0
            /\ IsDone(i)
            /\ ReturnedStatus(i, 405)
            /\ "error" \in DOMAIN inv[i].result.body

\* C6: with the credential not configured (unset or empty), a POST invocation
\* makes no outbound call and ends with status 500 and body {error}.
C6_MissingCredentialIs500 ==
    \A i \in Invocations :
        (/\ API_KEY \in {Undefined, ""}
         /\ inv[i].pc # "idle" /\ inv[i].event.httpMethod = "POST") =>
            /\ inv[i].calls = 0 /\ inv[i].inflight = 0
            /\ inv[i].sent = NoRequest
            /\ IsDone(i)
            /\ ReturnedStatus(i, 500)
            /\ DOMAIN inv[i].result.body = {"error"}

\* a POST with a well-formed body has been answered under an empty credential
C6_Witness ==
    \E i \in Invocations :
        /\ API_KEY = "" /\ IsDone(i)
        /\ inv[i].event.httpMethod = "POST"
        /\ inv[i].event.body \in {"{contents:[x]}", "{type:'fetch'}"}
        /\ ReturnedStatus(i, 500)

\* the raw bodies that are not JSON texts
NotJson == {Undefined, "", "not json"}

\* C7: with the credential configured, a POST invocation whose body does not
\* parse as JSON makes no outbound call and ends with status 400 and body
\* {error}.
C7_UnparseableIs400 ==
    \A i \in Invocations :
        (/\ API_KEY = "SECRET"
         /\ inv[i].pc # "idle" /\ inv[i].event.httpMethod = "POST"
         /\ inv[i].event.body \in NotJson) =>
            /\ inv[i].calls = 0
            /\ IsDone(i)
            /\ ReturnedStatus(i, 400)
            /\ DOMAIN inv[i].result.body = {"error"}

\* C8: one invocation is strictly sequential: it has at most one outbound
\* call in flight, never a call in flight while a backoff timer is pending,
\* and a call is in flight only when the outcome of every earlier attempt is
\* known and the wait after each of them has elapsed.
C8_Sequential ==
    \A i \in Invocations :
        /\ inv[i].inflight \in {0, 1}
        /\ inv[i].timers \in {0, 1}
        /\ inv[i].inflight + inv[i].timers <= 1
        /\ inv[i].inflight = 1 <=> inv[i].pc = "await_fetch"
        /\ inv[i].timers = 1 <=> inv[i].pc = "await_timer"
        /\ inv[i].inflight = 1 =>
              /\ inv[i].calls = Len(inv[i].log) + 1
              /\ Len(inv[i].waits) = Len(inv[i].log)
              /\ inv[i].attempt = Len(inv[i].log)
        /\ inv[i].inflight = 0 => inv[i].calls = Len(inv[i].log)

\* the third attempt is in flight, both waits behind it
C8_Witness ==
    \E i \in Invocations :
        /\ inv[i].handler = "getNews" /\ inv[i].pc = "await_fetch"
        /\ inv[i].calls = 3 /\ inv[i].waits = <<1000, 2000>>
        /\ inv[i].timers = 0

\* the handler's entry, lines 14-57 of get-news.js and 11-59 of part_000
Entry(h, ev, key) ==
    LET s == [IdleState EXCEPT !.handler = h, !.event = ev] IN
    IF h = "getNews" THEN GetNewsEntry(s, key) ELSE Part000Entry(s, key)

\* invocation s run by itself against the upstream outcomes log[k..]
RECURSIVE Replay(_, _, _)
Replay(s, log, k) ==
    IF s.pc = "await_fetch" /\ k <= Len(log)
    THEN Replay(IF s.handler = "getNews" THEN GetNewsFetchSettled(s, log[k])
                ELSE Part000FetchSettled(s, log[k]), log, k + 1)
    ELSE IF s.pc = "await_json"
    THEN Replay(IF s.handler = "getNews" THEN GetNewsJsonSettled(s)
                ELSE Part000JsonSettled(s), log, k)
    ELSE IF s.pc = "await_timer"
    THEN Replay(GetNewsTimerFired(s), log, k)
    ELSE s

\* a step of invocation j, of any kind
StepOf(j) ==
    \/ Invoke(j, ConcEvents)
    \/ FetchSettles(j, ConcOutcomes(inv[j].sent.url))
    \/ JsonSettles(j)
    \/ TimerFires(j)
    \/ Discard(j)

\* C9: concurrent invocations of one process are independent: under every
\* interleaving a finished invocation has the result, the attempt count and
\* the waits it has when run by itself on its own request and its own
\* upstream outcomes, and while one invocation is suspended in a backoff wait
\* every other invocation can take its next step.
C9_Independent ==
    /\ \A i \in Invocations :
          IsDone(i) =>
              LET alone == Replay(Entry(inv[i].handler, inv[i].event, API_KEY),
                                  inv[i].log, 1) IN
              /\ alone.pc = "done"
              /\ inv[i].result = alone.result
              /\ inv[i].calls = alone.calls
              /\ inv[i].attempt = alone.attempt
              /\ inv[i].waits = alone.waits
    /\ \A i, j \in Invocations :
          (i # j /\ inv[i].pc = "await_timer") => ENABLED StepOf(j)

\* invocation 2 has started and finished at its first attempt while
\* invocation 1, begun before it, is in its second backoff wait
C9_Witness ==
    /\ inv[1].pc = "await_timer" /\ inv[1].attempt = 1
    /\ Len(inv[1].waits) = 2
    /\ IsDone(2) /\ inv[2].handler = "getNews"
    /\ inv[2].attempt = 0 /\ inv[2].calls = 1
    /\ ReturnedStatus(2, 200)

\* C10: no returned body carries the credential: neither its error text nor
\* its details (the message of the last failure, in the retrying handler)
\* mentions the API key, also when the failure is a transport failure of the
\* request to the key-bearing URL.
C10_NoCredentialInResult ==
    \A i \in Invocations :
        (inv[i].result.settled = "returned"
         /\ "error" \in DOMAIN inv[i].result.body) =>
            /\ ~Mentions(inv[i].result.body.error, API_KEY)
            /\ ("details" \in DOMAIN inv[i].result.body
                /\ inv[i].handler = "getNews") =>
                    ~Mentions(inv[i].result.body.details, API_KEY)

EmptyContents == {"{}", "{contents:null}", "{contents:''}", "{contents:[]}"}

\* C12: a raw-payload request (to get-news.js) whose contents is absent,
\* null, an empty array or an empty string is rejected with status 400, and
\* no outbound call is made for it.
C12_EmptyContentsRejected ==
    \A i \in Invocations :
        (/\ inv[i].handler = "getNews" /\ inv[i].pc # "idle"
         /\ inv[i].event.httpMethod = "POST" /\ API_KEY = "SECRET"
         /\ inv[i].event.body \in EmptyContents) =>
            /\ inv[i].calls = 0
            /\ IsDone(i)
            /\ ReturnedStatus(i, 400)

\* the raw bodies of typed-intent requests that must not validate: a type
\* that is neither 'fetch' nor 'summarize', or 'summarize' without a
\* non-empty textToSummarize
InvalidIntents ==
    {"{}", "{type:'other'}", "{type:'summarize'}",
     "{type:'summarize',textToSummarize:''}"}

\* C13: a typed-intent request (to part_000) whose type is neither 'fetch'
\* nor 'summarize', or whose type is 'summarize' with textToSummarize missing
\* or empty, is rejected with status 400, and no outbound call is made.
C13_InvalidIntentRejected ==
    \A i \in Invocations :
        (/\ inv[i].handler = "part000" /\ inv[i].pc # "idle"
         /\ API_KEY = "SECRET"
         /\ inv[i].event.body \in InvalidIntents) =>
            /\ inv[i].calls = 0
            /\ IsDone(i)
            /\ ReturnedStatus(i, 400)

\* the text a summarize request supplies
SuppliedText(body) ==
    CASE body = "{type:'summarize',textToSummarize:'t'}" -> "t"
      [] body = "{type:'summarize',textToSummarize:''}" -> ""
      [] OTHER -> Undefined

\* C14: the payload part_000 sends upstream has the real-time search tool in
\* its tools field for every 'fetch' request; for every 'summarize' request
\* it has no tools field at all and its user content is the text the caller
\* supplied, verbatim.
C14_ToolsOnlyForFetch ==
    \A i \in Invocations :
        (inv[i].handler = "part000" /\ inv[i].calls >= 1) =>
            LET body == inv[i].event.body
                sent == inv[i].sent.payload.o IN
            /\ body = "{type:'fetch'}" =>
                  /\ "tools" \in DOMAIN sent
                  /\ sent.tools = <<"google_search">>
                  /\ sent.contents
                       = <<"[{parts:[{text:",
                           "What are the top 5 current finance and business news stories?",
                           "}]}]">>
            /\ body # "{type:'fetch'}" =>
                  /\ DOMAIN sent = {"contents", "systemInstruction"}
                  /\ SuppliedText(body) # Undefined =>
                        sent.contents
                          = <<"[{parts:[{text:", SuppliedText(body), "}]}]">>

\* a summarize request with a text has been sent upstream
C14_Witness ==
    \E i \in Invocations :
        /\ inv[i].handler = "part000" /\ inv[i].pc = "await_fetch"
        /\ inv[i].event.body = "{type:'summarize',textToSummarize:'t'}"
        /\ "tools" \notin DOMAIN inv[i].sent.payload.o

\* the statuses of the response contract table
ContractStatuses == {405, 500, 400, 200, 502}

\* C15 (as stated): every result whose status is not 200 has a body with an
\* error field, and the statuses an invocation can return are those of the
\* response contract table, 405, 500, 400, 200 and 502.
C15_ContractStatuses ==
    \A i \in Invocations :
        inv[i].result.settled = "returned" =>
            /\ inv[i].result.statusCode \in ContractStatuses
            /\ inv[i].result.statusCode # 200 =>
                  "error" \in DOMAIN inv[i].result.body

\* C15 (amended): every result whose status is not 200 has a body with an
\* error field; the retrying handler (get-news.js) returns a status of the
\* table, 405, 500, 400, 200 or 502; the single-shot handler (part_000)
\* returns 500, 400, 200 or, after a non-success upstream answer with a JSON
\* body, that answer's own status.
C15_StatusesPerHandler ==
    \A i \in Invocations :
        inv[i].result.settled = "returned" =>
            /\ inv[i].result.statusCode # 200 =>
                  "error" \in DOMAIN inv[i].result.body
            /\ IF inv[i].handler = "getNews"
               THEN inv[i].result.statusCode \in {405, 500, 400, 200, 502}
               ELSE \/ inv[i].result.statusCode \in {500, 400, 200}
                    \/ /\ Len(inv[i].log) = 1
                       /\ IsNonSuccess(inv[i].log[1])
                       /\ inv[i].result.statusCode = inv[i].log[1].status
                       /\ DOMAIN inv[i].result.body = {"error", "details"}

\* the retrying handler has returned 502 {error, details}
C15_Witness ==
    \E i \in Invocations :
        /\ inv[i].handler = "getNews" /\ ReturnedStatus(i, 502)
        /\ DOMAIN inv[i].result.body = {"error", "details"}

\* C16: the backoff rule of the retrying handler, for its bound maxRetries:
\* the failure of attempt k (0-based) with k < maxRetries - 1 is followed by
\* a wait of exactly 2^k seconds and then by attempt k + 1; the failure of
\* attempt maxRetries - 1 is followed by no wait and by the return.
C16_BackoffRule ==
    \A i \in Invocations :
        inv[i].handler = "getNews" =>
            /\ Len(inv[i].waits) <= maxRetries - 1
            /\ \A k \in 1..Len(inv[i].waits) :
                  inv[i].waits[k] = (2 ^ (k - 1)) * 1000
            /\ \A k \in 1..Handled(i) :
                  ~IsSuccess(inv[i].log[k]) =>
                      IF k - 1 < maxRetries - 1
                      THEN Len(inv[i].waits) >= k
                      ELSE /\ Len(inv[i].waits) = k - 1
                           /\ IsDone(i)
                           /\ inv[i].timers = 0
            /\ inv[i].pc = "await_timer" =>
                  /\ inv[i].attempt < maxRetries - 1
                  /\ Len(inv[i].waits) = inv[i].attempt + 1
                  /\ Len(inv[i].log) = inv[i].attempt + 1
            /\ inv[i].pc \in {"await_fetch", "await_json"} =>
                  /\ Len(inv[i].waits) = inv[i].attempt
                  /\ inv[i].calls = inv[i].attempt + 1

\* the last attempt has failed and the handler has returned, two waits made
C16_Witness ==
    \E i \in Invocations :
        /\ inv[i].handler = "getNews" /\ IsDone(i)
        /\ Len(inv[i].log) = maxRetries
        /\ ~IsSuccess(inv[i].log[maxRetries])
        /\ inv[i].waits = <<1000, 2000>>

\* an outcome that is a success status with a body that is not JSON
IsMalformed(o) ==
    o.kind = "response" /\ o.status \in 200..299 /\ JSONparse(o.text).threw

\* C17: in the retrying handler a success status with a body that cannot be
\* parsed as JSON is a failed attempt: with attempts left it is followed by
\* the backoff wait and the next attempt, on the last attempt by 502; the
\* invocation neither returns 200 for it nor raises.
C17_MalformedIsRetried ==
    \A i \in Invocations :
        inv[i].handler = "getNews" =>
            \A k \in 1..Handled(i) :
                IsMalformed(inv[i].log[k]) =>
                    /\ inv[i].result.settled \in {"pending", "returned"}
                    /\ IF k < maxRetries
                       THEN /\ Len(inv[i].waits) >= k
                            /\ inv[i].waits[k] = (2 ^ (k - 1)) * 1000
                            /\ \/ inv[i].calls >= k + 1
                               \/ inv[i].pc = "await_timer" /\ Len(inv[i].log) = k
                       ELSE /\ IsDone(i)
                            /\ ReturnedStatus(i, 502)
                            /\ inv[i].result.body.details
                                 = <<"Unexpected token in JSON">>
                    /\ (IsDone(i) /\ k = Len(inv[i].log)) => ReturnedStatus(i, 502)

\* a malformed first answer has been followed by a second attempt
C17_Witness ==
    \E i \in Invocations :
        /\ inv[i].handler = "getNews" /\ inv[i].pc = "await_fetch"
        /\ inv[i].calls = 2 /\ IsMalformed(inv[i].log[1])

\* C18: the dispatch loop of the retrying handler is bounded and ends: the
\* attempt index stays within 0..maxRetries - 1, an invocation issues at most
\* maxRetries outbound calls and makes at most maxRetries - 1 backoff waits,
\* a finished invocation has returned a result (the loop never falls through),
\* and, every outbound call settling and every timer firing in the end,
\* every invocation reaches its end.
C18_BoundedTermination ==
    /\ [](\A i \in Invocations :
            inv[i].handler = "getNews" =>
                /\ inv[i].attempt \in 0..(maxRetries - 1)
                /\ inv[i].calls <= maxRetries
                /\ Len(inv[i].waits) <= maxRetries - 1
                /\ IsDone(i) => inv[i].result.settled = "returned")
    /\ \A i \in Invocations :
          (inv[i].handler = "getNews" /\ inv[i].pc # "idle")
              ~> (inv[i].handler = "getNews" /\ IsDone(i)
                  /\ inv[i].result.settled = "returned")

\* the loop has run to its bound: three calls, two waits, a result
C18_Witness ==
    \E i \in Invocations :
        /\ inv[i].handler = "getNews" /\ IsDone(i)
        /\ inv[i].calls = maxRetries /\ Len(inv[i].waits) = maxRetries - 1
        /\ inv[i].attempt = maxRetries - 1
        /\ inv[i].result.settled = "returned"

\* the raw bodies that pass the contents gate of get-news.js
PassesContents == {"{contents:[]}", "{contents:[x]}"}

\* C19: get-news.js checks its gates in the order method, credential, JSON
\* parse, contents, and the first gate that fails decides the result: 405
\* for a non-POST even with the credential missing, 500 for a POST with the
\* credential missing even with an unparseable body, then 400 for a body
\* that is not JSON, then 400 for missing contents; an outbound call is made
\* only when all four gates have passed.
C19_GateOrder ==
    \A i \in Invocations :
        (inv[i].handler = "getNews" /\ inv[i].pc # "idle") =>
            LET ev == inv[i].event
                early(st, text) ==
                    /\ IsDone(i) /\ inv[i].calls = 0
                    /\ ReturnedStatus(i, st)
                    /\ inv[i].result.body = [error |-> <<text>>] IN
            IF ev.httpMethod # "POST"
            THEN early(405, "Method Not Allowed")
            ELSE IF API_KEY \in {Undefined, ""}
            THEN early(500, "Server configuration error: API key missing.")
            ELSE IF ev.body \in NotJson
            THEN early(400, "Invalid JSON body provided.")
            ELSE IF ev.body \notin PassesContents
            THEN early(400, "Missing required 'contents' in payload.")
            ELSE inv[i].calls >= 1

\* a non-POST request under a missing credential has been answered 405
C19_Witness ==
    \E i \in Invocations :
        /\ inv[i].handler = "getNews" /\ IsDone(i)
        /\ inv[i].event.httpMethod = "GET" /\ API_KEY = Undefined
        /\ inv[i].event.body = "not json"
        /\ ReturnedStatus(i, 405)

\* C20: in the retrying handler, when the last attempt got a non-success
\* status S, the details of the 502 body are 'Gemini API returned status S'
\* if the upstream error body could be read as JSON; if reading it failed,
\* details are the message of that failure and do not name S.
C20_DetailsOfLastStatus ==
    \A i \in Invocations :
        (/\ inv[i].handler = "getNews" /\ IsDone(i)
         /\ Len(inv[i].log) = maxRetries
         /\ IsNonSuccess(inv[i].log[maxRetries])) =>
            LET o == inv[i].log[maxRetries] IN
            /\ ReturnedStatus(i, 502)
            /\ IF ~JSONparse(o.text).threw
               THEN inv[i].result.body.details
                      = <<"Gemini API returned status ", ToString(o.status)>>
               ELSE /\ inv[i].result.body.details = JSONparse(o.text).message
                    /\ ~Mentions(inv[i].result.body.details, ToString(o.status))

\* the last attempt got a 503 whose body was not JSON
C20_Witness ==
    \E i \in Invocations :
        /\ inv[i].handler = "getNews" /\ IsDone(i)
        /\ Len(inv[i].log) = maxRetries
        /\ IsNonSuccess(inv[i].log[maxRetries])
        /\ inv[i].log[maxRetries].status = 503
        /\ JSONparse(inv[i].log[maxRetries].text).threw
        /\ ReturnedStatus(i, 502)

====
